---- MODULE Spec2Model ----
(***************************************************************************)
(* The tool-use conversation loops of the vector_demo notebooks:           *)
(*   chatbot_interaction + ConversationManager + process_tool_call         *)
(*       (notebooks/agents/agent_rag.ipynb)                                *)
(*   chat_with_rag + process_tool_call                                     *)
(*       (notebooks/chatbot/Anthropic/prompt-caching.md)                   *)
(* The chat model and the network-backed tools are the environment: every  *)
(* model call returns one of a small set of responses or fails, and every  *)
(* network-backed tool returns or raises.                                  *)
(***************************************************************************)
EXTENDS Integers, Sequences, FiniteSets, TLC

VARIABLES conv, chunking, graph

vars == <<conv, chunking, graph>>

(***************************************************************************)
(* Bounds and input sets                                                   *)
(***************************************************************************)

\* No history (and no request) grows beyond this many messages.
MaxHistory == 5

\* chunk_text_by_tokens is called on texts of at most this many tokens,
MaxTokens == 5

\* with a chunk_size of 1..MaxChunkSize
MaxChunkSize == 3

\* and an overlap of 0..MaxOverlap (overlap >= chunk_size included).
MaxOverlap == 3

\* A call that is still in its loop after this many chunks is followed no further.
MaxChunks == MaxTokens + 2

\* The routing graph is invoked at most this many times.
MaxInvocations == 3

\* A model that keeps asking for tools is followed for this many rounds.
MaxRounds == 3

\* The conversations (one ConversationManager / one messages_history each).
Convs == {"c1"}

UserTexts == {"How many toes does a cat have?"}

Roles == {"user", "assistant"}

StopReasons == {"tool_use", "end_turn", "max_tokens"}

(***************************************************************************)
(* Python values                                                           *)
(***************************************************************************)

None == [type |-> "NoneType"]

Str(s) == [type |-> "str", value |-> s]

List(items) == [type |-> "list", items |-> items]

Dict(keys, repr, json) == [type |-> "dict", keys |-> keys, repr |-> repr, json |-> json]

RECURSIVE JoinRepr(_)
\* The items of a list of strings as Python's repr writes them.
JoinRepr(items) ==
    IF items = <<>> THEN ""
    ELSE IF Len(items) = 1 THEN "'" \o Head(items) \o "'"
    ELSE "'" \o Head(items) \o "', " \o JoinRepr(Tail(items))

\* str(value)
str(v) ==
    CASE v.type = "NoneType" -> "None"
      [] v.type = "str" -> v.value
      [] v.type = "list" -> "[" \o JoinRepr(v.items) \o "]"
      [] v.type = "dict" -> v.repr

\* json.dumps(value) of a dict
json_dumps(v) == v.json

(***************************************************************************)
(* Content blocks and model responses                                      *)
(***************************************************************************)

TextBlock(t) == [type |-> "text", text |-> t]

ToolUseBlock(id, name, input) ==
    [type |-> "tool_use", id |-> id, name |-> name, input |-> input]

Texts == {"Paris", "The sum is 5."}

\* search_cat_facts is dispatched by chatbot_interaction only, search_pinecone
\* by chat_with_rag only: each name is an unknown tool to the other loop.
ToolUses ==
    { ToolUseBlock("toolu_01", "search_cat_facts", [query |-> "cat toes"]),
      ToolUseBlock("toolu_02", "search_pinecone",
                   [questions_to_search |-> "cat toes"]) }

Blocks == {TextBlock(t) : t \in Texts} \cup ToolUses

\* Response contents of zero, one or two blocks.
Contents ==
    {<<>>} \cup {<<a>> : a \in Blocks} \cup {<<a, b>> : a \in Blocks, b \in Blocks}

Responses == [stop_reason : StopReasons, content : Contents]

NoResponse == [stop_reason |-> "none", content |-> <<>>]

\* hasattr(block, "text")
hasattr_text(block) == "text" \in DOMAIN block

(***************************************************************************)
(* Tools                                                                   *)
(***************************************************************************)

\* tools (agent_rag.ipynb), by name
tools == <<"search_cat_facts", "check_vet_availability", "book_appointment">>

\* TOOLS (prompt-caching.md), by name
TOOLS == <<"search_pinecone", "read_full_document">>

Returned(v) == [raised |-> FALSE, value |-> v]

Raised(e) == [raised |-> TRUE, exception |-> e]

\* search_cat_facts(query): two network calls, then the facts of the matches.
search_cat_facts(query) ==
    {Returned(List(<<"Cats have 18 toes.">>)), Raised("NetworkError")}

check_vet_availability ==
    {Returned(Dict({"Monday", "Tuesday", "Wednesday", "Thursday", "Friday"},
                   "{'Monday': ['10:00-12:00', ...], ...}",
                   "{\"Monday\": [\"10:00-12:00\", ...], ...}"))}

book_appointment(day, time) ==
    {Returned(Dict({"status", "appointment", "booking_reference"},
                   "{'status': 'confirmed', ...}",
                   "{\"status\": \"confirmed\", ...}"))}

\* semantic_search + the matches dict of process_tool_call (prompt-caching.md)
search_pinecone(questions) ==
    {Returned(Dict({"matches"}, "{'matches': []}", "{\"matches\": []}")),
     Raised("NetworkError")}

\* Mutation: the failure to open or read the file is not caught.
read_full_document_NoTry(file_path) ==
    {Returned(Str("full text of " \o file_path)), Raised("FileNotFoundError")}

\* read_full_document(file_path): the file's text, or the error as a string.
read_full_document(file_path) ==
    {Returned(Str("full text of " \o file_path)),
     Returned(Str("Error reading file " \o file_path \o ": [Errno 2]"))}

\* process_tool_call of agent_rag.ipynb: the outcomes of one dispatch.  A
\* name matching no branch falls off the end of the function: None.
process_tool_call(tool_name, tool_input) ==
    IF tool_name = "search_cat_facts" THEN
        IF "query" \in DOMAIN tool_input
        THEN search_cat_facts(tool_input.query) ELSE {Raised("KeyError")}
    ELSE IF tool_name = "check_vet_availability" THEN
        check_vet_availability
    ELSE IF tool_name = "book_appointment" THEN
        IF {"day", "time"} \subseteq DOMAIN tool_input
        THEN book_appointment(tool_input.day, tool_input.time)
        ELSE {Raised("KeyError")}
    ELSE {Returned(None)}

UnknownTool(tool_name) == "Unknown tool: " \o tool_name

\* process_tool_call of prompt-caching.md
process_tool_call_rag(tool_name, tool_input) ==
    IF tool_name = "search_pinecone" THEN
        IF "questions_to_search" \in DOMAIN tool_input
        THEN search_pinecone(tool_input.questions_to_search)
        ELSE {Raised("KeyError")}
    ELSE IF tool_name = "read_full_document" THEN
        IF "file_path" \in DOMAIN tool_input
        THEN read_full_document(tool_input.file_path) ELSE {Raised("KeyError")}
    ELSE {Returned(Str(UnknownTool(tool_name)))}

(***************************************************************************)
(* Messages, requests and the state of one conversation                    *)
(***************************************************************************)

Message(role, content) == [role |-> role, content |-> content]

\* Mutation: the message is inserted at the front.
add_message_Prepend(history, role, content) == <<Message(role, content)>> \o history

\* ConversationManager.add_message
add_message(history, role, content) == Append(history, Message(role, content))

\* Mutation: only the latest two messages are handed out.
get_messages_LatestTwo(m) ==
    IF Len(m.history) <= 2 THEN m.history
    ELSE SubSeq(m.history, Len(m.history) - 1, Len(m.history))

\* ConversationManager.get_messages
get_messages(m) == m.history

\* Mutation: the block's name where its id belongs.
ToolResultBlock_NameForId(tool_use, content) ==
    [type |-> "tool_result", tool_use_id |-> tool_use.name, content |-> content]

\* The tool_result block of one tool round.
ToolResultBlock(tool_use, content) ==
    [type |-> "tool_result", tool_use_id |-> tool_use.id, content |-> content]

Absent == "absent"

RagSystemPrompt == "You are a helpful assistant that can search the Pinecone index ..."

NoRequest == [sent |-> FALSE]

\* client.messages.create(...) as chatbot_interaction calls it first
InitialRequest(messages) ==
    [sent |-> TRUE, tools |-> tools, tool_choice |-> "auto", system |-> Absent,
     messages |-> messages]

\* Mutation: the follow-up request is sent without the tools.
FollowUpRequest_NoTools(messages) ==
    [sent |-> TRUE, tools |-> <<>>, tool_choice |-> Absent, system |-> Absent,
     messages |-> messages]

\* client.messages.create(...) as chatbot_interaction calls it after a tool round
FollowUpRequest(messages) ==
    [sent |-> TRUE, tools |-> tools, tool_choice |-> Absent, system |-> Absent,
     messages |-> messages]

\* client_anthropic.messages.create(...) as chat_with_rag calls it first
InitialRequestRag(messages) ==
    [sent |-> TRUE, tools |-> TOOLS, tool_choice |-> Absent,
     system |-> RagSystemPrompt, messages |-> messages]

\* Mutation: the follow-up request carries the system prompt too.
FollowUpRequestRag_WithSystem(messages) ==
    [sent |-> TRUE, tools |-> TOOLS, tool_choice |-> Absent,
     system |-> RagSystemPrompt, messages |-> messages]

\* client_anthropic.messages.create(...) as chat_with_rag calls it after a tool round
FollowUpRequestRag(messages) ==
    [sent |-> TRUE, tools |-> TOOLS, tool_choice |-> Absent, system |-> Absent,
     messages |-> messages]

NotReturned == [returned |-> FALSE]

\* The fields of a call that has not started: its locals and what is recorded
\* about it: model_calls .. path are counters and logs of the current call
\* (received: the responses the model gave; executed: the name and input of
\* every process_tool_call; path: the states the loop went through).
NoCall ==
    [pc |-> "Idle", user_message |-> "", request |-> NoRequest,
     response |-> NoResponse, tool_use |-> None, final_response |-> None,
     result |-> NotReturned, exception |-> "none", origin |-> "none",
     model_calls |-> 0, tool_requests |-> 0, tool_execs |-> 0,
     tool_failures |-> 0, received |-> <<>>, executed |-> <<>>, path |-> <<>>]

\* ConversationManager.__init__: an empty history, referenced by nobody else.
ConversationManager ==
    [fn |-> "none", history |-> <<>>, history0 |-> <<>>, aliased |-> FALSE,
     call |-> NoCall]

(***************************************************************************)
(* The loop, step by step                                                  *)
(***************************************************************************)

RECURSIVE FirstIndex(_, _, _)
\* The least i >= from with content[i].type = type, 0 when there is none.
FirstIndex(content, type, from) ==
    IF from > Len(content) THEN 0
    ELSE IF content[from].type = type THEN from
    ELSE FirstIndex(content, type, from + 1)

\* Mutation: the last tool_use block of the content is taken.
SelectToolUse_Last(content) ==
    LET uses == {i \in DOMAIN content : content[i].type = "tool_use"}
    IN  IF uses = {} THEN None
        ELSE content[CHOOSE i \in uses : \A j \in uses : j <= i]

\* next(block for block in response.content if block.type == "tool_use"):
\* the first tool_use block, None standing for StopIteration.
SelectToolUse(content) ==
    LET i == FirstIndex(content, "tool_use", 1)
    IN  IF i = 0 THEN None ELSE content[i]

RECURSIVE LastText(_)
\* Mutation: the text of the last block that has one.
LastText(content) ==
    IF content = <<>> THEN None
    ELSE IF hasattr_text(content[Len(content)]) THEN Str(content[Len(content)].text)
    ELSE LastText(SubSeq(content, 1, Len(content) - 1))

RECURSIVE FirstText(_)
\* next((block.text for block in response.content if hasattr(block, "text")), None)
FirstText(content) ==
    IF content = <<>> THEN None
    ELSE IF hasattr_text(Head(content)) THEN Str(Head(content).text)
    ELSE FirstText(Tail(content))

\* Mutation: the loop goes on unless the model ended its turn.
LoopCondition_NotEndTurn(response) == response.stop_reason # "end_turn"

\* Mutation: the loop goes on while the response holds a tool_use block.
LoopCondition_HasToolUse(response) ==
    \E i \in DOMAIN response.content : response.content[i].type = "tool_use"

\* Mutation: the loop also ends when the response holds a text block.
LoopCondition_UntilText(response) ==
    /\ response.stop_reason = "tool_use"
    /\ \A i \in DOMAIN response.content : response.content[i].type # "text"

\* Mutation: the loop is entered only when there is a tool_use block to run.
LoopCondition_BlockPresent(response) ==
    /\ response.stop_reason = "tool_use"
    /\ \E i \in DOMAIN response.content : response.content[i].type = "tool_use"

\* while response.stop_reason == "tool_use"
LoopCondition(response) == response.stop_reason = "tool_use"

\* Mutation: the user message is sent but not added to the manager.
BeginChatbot_NoAppend(m, user_message) ==
    LET added == [m EXCEPT !.history = add_message(@, "user", Str(user_message))]
    IN  [m EXCEPT !.fn = "chatbot_interaction",
                  !.history0 = m.history,
                  !.call = [NoCall EXCEPT !.pc = "AwaitingModel",
                                          !.user_message = user_message,
                                          !.request = InitialRequest(get_messages(added)),
                                          !.model_calls = 1,
                                          !.path = <<"AwaitingModel">>]]

\* chatbot_interaction up to its first client.messages.create
BeginChatbot(m, user_message) ==
    LET added == [m EXCEPT !.history = add_message(@, "user", Str(user_message))]
    IN  [m EXCEPT !.fn = "chatbot_interaction",
                  !.history = added.history,
                  !.history0 = m.history,
                  !.call = [NoCall EXCEPT !.pc = "AwaitingModel",
                                          !.user_message = user_message,
                                          !.request = InitialRequest(get_messages(added)),
                                          !.model_calls = 1,
                                          !.path = <<"AwaitingModel">>]]

\* chat_with_rag up to its first client_anthropic.messages.create;
\* messages_history is not bound yet.
BeginRag(m, query) ==
    [m EXCEPT !.fn = "chat_with_rag",
              !.history0 = m.history,
              !.call = [NoCall EXCEPT !.pc = "AwaitingModel",
                                      !.user_message = query,
                                      !.request = InitialRequestRag(
                                          <<Message("user", Str(query))>>),
                                      !.model_calls = 1,
                                      !.path = <<"AwaitingModel">>]]

\* What the caller gets back: (final_response, conversation_manager) from
\* chatbot_interaction, final_response alone from chat_with_rag.
ReturnValue(fn, final_response, history) ==
    IF fn = "chatbot_interaction"
    THEN [returned |-> TRUE, final_response |-> final_response,
          conversation_manager |-> history]
    ELSE [returned |-> TRUE, final_response |-> final_response]

\* messages_history as chat_with_rag binds it after the initial request.
HistoryAtLoop(m) ==
    IF m.fn = "chat_with_rag" /\ m.call.model_calls = 1
    THEN <<Message("user", Str(m.call.user_message))>>
    ELSE m.history

\* Mutation: the final response is added to the history as an assistant message.
HistoryAtReturn_FinalAppended(history, response) ==
    add_message(history, "assistant", List(response.content))

\* The history when the loop has ended: the final response is read for its
\* text and nothing is added.
HistoryAtReturn(history, response) == history

\* From the arrival of a response to the next suspension point: the loop test,
\* then either the selection of the tool_use block or the final response.
OnResponse(m, response) ==
    LET h == HistoryAtLoop(m)
        c == [m.call EXCEPT !.response = response,
                            !.request = NoRequest,
                            !.received = Append(@, response),
                            !.tool_requests =
                                IF response.stop_reason = "tool_use" THEN @ + 1 ELSE @]
    IN  IF LoopCondition(response) THEN
            LET tool_use == SelectToolUse(response.content)
            IN  IF tool_use = None THEN
                    [m EXCEPT !.history = h,
                              !.call = [c EXCEPT !.pc = "Raised",
                                        !.exception = "StopIteration",
                                        !.origin = "select_tool_use",
                                        !.path = Append(@, "Raised")]]
                ELSE
                    [m EXCEPT !.history = h,
                              !.call = [c EXCEPT !.pc = "ExecutingTool",
                                        !.tool_use = tool_use,
                                        !.path = Append(@, "ExecutingTool")]]
        ELSE
            LET final_response == FirstText(response.content)
                returned == HistoryAtReturn(h, response)
            IN  [m EXCEPT !.history = returned,
                          !.call = [c EXCEPT !.pc = "Done",
                                    !.final_response = final_response,
                                    !.result = ReturnValue(m.fn, final_response, returned),
                                    !.path = Append(@, "Done")]]

\* Mutation: a failed model call is sent again.
OnTransportError_Retry(m) ==
    [m EXCEPT !.call = [@ EXCEPT !.model_calls = @ + 1,
                                 !.path = Append(@, "AwaitingModel")]]

\* Mutation: a failed model call puts the history back to what it was
\* before the call.
OnTransportError_Rollback(m) ==
    [m EXCEPT !.history = m.history0,
              !.call = [@ EXCEPT !.pc = "Raised",
                                 !.request = NoRequest,
                                 !.exception = "TransportError",
                                 !.origin = "messages.create",
                                 !.path = Append(@, "Raised")]]

\* client.messages.create raised: nothing catches it.
OnTransportError(m) ==
    [m EXCEPT !.call = [@ EXCEPT !.pc = "Raised",
                                 !.request = NoRequest,
                                 !.exception = "TransportError",
                                 !.origin = "messages.create",
                                 !.path = Append(@, "Raised")]]

\* The content of the tool_result block: str(tool_result) in
\* chatbot_interaction, json.dumps(result) if isinstance(result, dict) else
\* result in chat_with_rag.
ToolResultContent(fn, value) ==
    IF fn = "chatbot_interaction" THEN str(value)
    ELSE IF value.type = "dict" THEN json_dumps(value) ELSE str(value)

\* Mutation: the assistant message keeps the tool_use block only.
ToolRoundMessages_ToolUseOnly(fn, response, tool_use, value) ==
    << Message("assistant", List(<<tool_use>>)),
       Message("user",
               List(<<ToolResultBlock(tool_use, ToolResultContent(fn, value))>>)) >>

\* Mutation: the assistant message of the round is left out.
ToolRoundMessages_ResultOnly(fn, response, tool_use, value) ==
    << Message("user",
               List(<<ToolResultBlock(tool_use, ToolResultContent(fn, value))>>)) >>

\* Mutation: the tool result is appended before the assistant message.
ToolRoundMessages_ResultFirst(fn, response, tool_use, value) ==
    << Message("user",
               List(<<ToolResultBlock(tool_use, ToolResultContent(fn, value))>>)),
       Message("assistant", List(response.content)) >>

\* The two messages of a tool round, appended in this order.
ToolRoundMessages(fn, response, tool_use, value) ==
    << Message("assistant", List(response.content)),
       Message("user",
               List(<<ToolResultBlock(tool_use, ToolResultContent(fn, value))>>)) >>

RECURSIVE AddMessages(_, _)
\* One conversation_manager.add_message call per message, in order.
AddMessages(history, messages) ==
    IF messages = <<>> THEN history
    ELSE AddMessages(add_message(history, Head(messages).role, Head(messages).content),
                     Tail(messages))

\* Mutation: the follow-up request is built before the round is appended.
OnToolReturn_RequestFirst(m, value) ==
    LET round == ToolRoundMessages(m.fn, m.call.response, m.call.tool_use, value)
    IN  [m EXCEPT !.history = @ \o round,
                  !.call = [@ EXCEPT !.pc = "AwaitingModel",
                            !.request = IF m.fn = "chatbot_interaction"
                                        THEN FollowUpRequest(get_messages(m))
                                        ELSE FollowUpRequestRag(m.history),
                            !.model_calls = @ + 1,
                            !.tool_execs = @ + 1,
                            !.executed = Append(@, [name |-> m.call.tool_use.name,
                                                    input |-> m.call.tool_use.input]),
                            !.path = Append(@, "AwaitingModel")]]

\* From the return of process_tool_call to the next client.messages.create:
\* two add_message calls in chatbot_interaction, one messages_history.extend
\* in chat_with_rag, then the follow-up request.
OnToolReturn(m, value) ==
    LET round == ToolRoundMessages(m.fn, m.call.response, m.call.tool_use, value)
        added == [m EXCEPT !.history =
                     IF m.fn = "chatbot_interaction"
                     THEN AddMessages(@, round)
                     ELSE @ \o round]
    IN  [m EXCEPT !.history = added.history,
                  !.call = [@ EXCEPT !.pc = "AwaitingModel",
                            !.request = IF m.fn = "chatbot_interaction"
                                        THEN FollowUpRequest(get_messages(added))
                                        ELSE FollowUpRequestRag(added.history),
                            !.model_calls = @ + 1,
                            !.tool_execs = @ + 1,
                            !.executed = Append(@, [name |-> m.call.tool_use.name,
                                                    input |-> m.call.tool_use.input]),
                            !.path = Append(@, "AwaitingModel")]]

\* process_tool_call raised: neither loop has a try around it.
OnToolRaise(m, exception) ==
    [m EXCEPT !.call = [@ EXCEPT !.pc = "Raised",
                                 !.exception = exception,
                                 !.origin = "process_tool_call",
                                 !.tool_execs = @ + 1,
                                 !.tool_failures = @ + 1,
                                 !.executed = Append(@, [name |-> m.call.tool_use.name,
                                                         input |-> m.call.tool_use.input]),
                                 !.path = Append(@, "Raised")]]

\* The outcomes of the dispatch the loop is waiting for.
ToolOutcomes(m) ==
    IF m.fn = "chatbot_interaction"
    THEN process_tool_call(m.call.tool_use.name, m.call.tool_use.input)
    ELSE process_tool_call_rag(m.call.tool_use.name, m.call.tool_use.input)

(***************************************************************************)
(* Actions                                                                 *)
(***************************************************************************)

NoCallRunning(m) == m.call.pc \in {"Idle", "Done", "Raised"}

\* Mutation: the history list is a class attribute, one object for every manager.
conversation_history_ClassLevel(c) == "ConversationManager"

\* The list object behind a manager's history: self.conversation_history = []
\* in __init__ makes one per instance (named here after its conversation).
conversation_history(c) == c

\* The conversations after a step of conversation c that leaves it as new: a
\* manager whose history is the same list object sees what was appended to
\* it; chat_with_rag's messages_history is a local list of the call.
Store(c, new) ==
    [d \in DOMAIN conv |->
        IF d = c THEN new
        ELSE IF /\ conversation_history(d) = conversation_history(c)
                /\ new.fn # "chat_with_rag"
                /\ conv[d].fn # "chat_with_rag"
             THEN [conv[d] EXCEPT !.history = new.history]
             ELSE conv[d]]

\* A step of conversation c; the chunker and the routing graph are left alone.
Step(c, new) == conv' = Store(c, new) /\ UNCHANGED <<chunking, graph>>

\* The caller's own conversation_manager.add_message(role, content).
AddMessage(c) ==
    \E role \in Roles, text \in UserTexts :
        /\ conv[c].fn # "chat_with_rag"
        /\ NoCallRunning(conv[c])
        /\ Len(conv[c].history) < MaxHistory
        /\ Step(c, [conv[c] EXCEPT !.history = add_message(@, role, Str(text)),
                                     !.call = NoCall])

\* The caller's conversation_manager.get_messages(): the list itself.
GetMessages(c) ==
    /\ conv[c].fn # "chat_with_rag"
    /\ NoCallRunning(conv[c])
    /\ ~conv[c].aliased
    /\ Step(c, [conv[c] EXCEPT !.aliased = TRUE, !.call = NoCall])

\* The caller's conversation_manager.clear_history(): a new empty list.
ClearHistory(c) ==
    /\ conv[c].fn # "chat_with_rag"
    /\ NoCallRunning(conv[c])
    /\ Step(c, [conv[c] EXCEPT !.history = <<>>, !.aliased = FALSE, !.call = NoCall])

CallChatbot(c) ==
    \E user_message \in UserTexts :
        /\ conv[c].fn # "chat_with_rag"
        /\ NoCallRunning(conv[c])
        /\ Len(conv[c].history) < MaxHistory
        /\ Step(c, BeginChatbot(conv[c], user_message))

CallRag(c) ==
    \E query \in UserTexts :
        /\ conv[c].fn = "none"
        /\ conv[c].history = <<>>
        /\ conv[c].call.pc = "Idle"
        /\ ~conv[c].aliased
        /\ Step(c, BeginRag(conv[c], query))

\* The model answers; it asks for a tool only while the history has room.
ModelResponds(c) ==
    /\ conv[c].call.pc = "AwaitingModel"
    /\ \E response \in Responses :
        /\ response.stop_reason = "tool_use"
              => Len(conv[c].call.request.messages) + 2 <= MaxHistory
        /\ Step(c, OnResponse(conv[c], response))

ModelFails(c) ==
    /\ conv[c].call.pc = "AwaitingModel"
    /\ Step(c, OnTransportError(conv[c]))

ToolReturns(c) ==
    /\ conv[c].call.pc = "ExecutingTool"
    /\ \E o \in ToolOutcomes(conv[c]) :
          /\ ~o.raised
          /\ Step(c, OnToolReturn(conv[c], o.value))

ToolRaises(c) ==
    /\ conv[c].call.pc = "ExecutingTool"
    /\ \E o \in ToolOutcomes(conv[c]) :
          /\ o.raised
          /\ Step(c, OnToolRaise(conv[c], o.exception))

\* No chunk_text_by_tokens call.
NoChunking == [pc |-> "none"]

\* The compiled routing graph before its first invocation: node is where the
\* running invocation stands, ran lists the handlers it has entered,
\* invocations counts the app.invoke calls.
NoWorkflow ==
    [node |-> "none", messages |-> <<>>, reply |-> <<>>, route |-> "none",
     ran |-> <<>>, exception |-> "none", invocations |-> 0]

Init ==
    /\ conv = [c \in Convs |-> ConversationManager]
    /\ chunking = NoChunking
    /\ graph = NoWorkflow

Next ==
    \E c \in Convs :
        \/ AddMessage(c)
        \/ GetMessages(c)
        \/ ClearHistory(c)
        \/ CallChatbot(c)
        \/ CallRag(c)
        \/ ModelResponds(c)
        \/ ModelFails(c)
        \/ ToolReturns(c)
        \/ ToolRaises(c)

Spec == Init /\ [][Next]_vars

\* A pending model call or tool execution comes back, one way or the other.
FairSpec ==
    /\ Spec
    /\ \A c \in Convs : WF_vars(ModelResponds(c) \/ ModelFails(c))
    /\ \A c \in Convs : WF_vars(ToolReturns(c) \/ ToolRaises(c))

(***************************************************************************)
(* Two conversations, interleaved at their model calls and tool calls      *)
(***************************************************************************)

PairConvs == {"c1", "c2"}

\* Each conversation's user asks a question of their own.
PairText(c) ==
    IF c = "c1" THEN "How many toes does a cat have?" ELSE "Is the vet free on Monday?"

\* The model answers with one block: a tool request or a final text.
PairResponses ==
    {r \in Responses :
        /\ Len(r.content) = 1
        /\ \/ r.stop_reason = "tool_use" /\ r.content[1].type = "tool_use"
           \/ r.stop_reason = "end_turn" /\ r.content[1].type = "text"}

\* chatbot_interaction(text, manager) on the conversation's manager, or
\* chatbot_interaction(text): conversation_manager=None makes a new manager.
PairCallChatbot(c) ==
    /\ conv[c].fn # "chat_with_rag"
    /\ NoCallRunning(conv[c])
    /\ \E manager \in {conv[c], ConversationManager} :
          /\ Len(manager.history) < MaxHistory
          /\ Step(c, BeginChatbot(manager, PairText(c)))

\* chat_with_rag(text): every call has a messages_history of its own.
PairCallRag(c) ==
    /\ conv[c].fn # "chatbot_interaction"
    /\ NoCallRunning(conv[c])
    /\ Step(c, BeginRag(ConversationManager, PairText(c)))

PairModelResponds(c) ==
    /\ conv[c].call.pc = "AwaitingModel"
    /\ \E response \in PairResponses :
        /\ response.stop_reason = "tool_use"
              => Len(conv[c].call.request.messages) + 2 <= MaxHistory
        /\ Step(c, OnResponse(conv[c], response))

PairInit ==
    /\ conv = [c \in PairConvs |-> ConversationManager]
    /\ chunking = NoChunking
    /\ graph = NoWorkflow

PairNext ==
    \E c \in PairConvs :
        \/ PairCallChatbot(c)
        \/ PairCallRag(c)
        \/ PairModelResponds(c)
        \/ ModelFails(c)
        \/ ToolReturns(c)
        \/ ToolRaises(c)

PairSpec == PairInit /\ [][PairNext]_vars

(***************************************************************************)
(* A model that answers every call with a tool request                     *)
(***************************************************************************)

\* The model asks for a tool, whatever the history has grown to.
ModelAsksForTool(c) ==
    /\ conv[c].call.pc = "AwaitingModel"
    /\ conv[c].call.tool_requests < MaxRounds
    /\ \E response \in Responses :
        /\ response.stop_reason = "tool_use"
        /\ SelectToolUse(response.content) # None
        /\ Step(c, OnResponse(conv[c], response))

ToolLoopNext ==
    \E c \in Convs :
        \/ CallChatbot(c)
        \/ CallRag(c)
        \/ ModelAsksForTool(c)
        \/ ToolReturns(c)

\* Every model call is answered and every tool returns.
ToolLoopSpec ==
    /\ Init
    /\ [][ToolLoopNext]_vars
    /\ \A c \in Convs : WF_vars(ModelAsksForTool(c))
    /\ \A c \in Convs : WF_vars(ToolReturns(c))

(***************************************************************************)
(* chat_with_rag with a model that asks for documents                      *)
(***************************************************************************)

FilePaths == {"data/cats.md", "data/missing.md"}

\* The tool_use blocks of chat_with_rag's two tools.
ReadToolUses ==
    {ToolUseBlock("toolu_03", "read_full_document", [file_path |-> p]) : p \in FilePaths}
        \cup {b \in ToolUses : b.name = "search_pinecone"}

\* The model asks for one tool, with or without a text before the request,
\* or ends its turn with a text.
ReadResponses ==
    {[stop_reason |-> "tool_use", content |-> <<b>>] : b \in ReadToolUses}
        \cup {[stop_reason |-> "tool_use", content |-> <<TextBlock(t), b>>] :
                  t \in Texts, b \in ReadToolUses}
        \cup {[stop_reason |-> "end_turn", content |-> <<TextBlock(t)>>] : t \in Texts}

ReadModelResponds(c) ==
    /\ conv[c].call.pc = "AwaitingModel"
    /\ \E response \in ReadResponses :
        /\ response.stop_reason = "tool_use"
              => Len(conv[c].call.request.messages) + 2 <= MaxHistory
        /\ Step(c, OnResponse(conv[c], response))

ReadNext ==
    \E c \in Convs :
        \/ CallRag(c)
        \/ ReadModelResponds(c)
        \/ ToolReturns(c)
        \/ ToolRaises(c)

ReadSpec == Init /\ [][ReadNext]_vars

(***************************************************************************)
(* The LangGraph routing workflow (notebooks/agents/langchain.ipynb)       *)
(***************************************************************************)

\* A reply of the router model is the sequence of its characters.
UpperCase == <<"A", "B", "C", "D", "E", "F", "G", "H", "I", "J", "K", "L", "M",
               "N", "O", "P", "Q", "R", "S", "T", "U", "V", "W", "X", "Y", "Z">>

LowerCase == <<"a", "b", "c", "d", "e", "f", "g", "h", "i", "j", "k", "l", "m",
               "n", "o", "p", "q", "r", "s", "t", "u", "v", "w", "x", "y", "z">>

\* str.lower(), character by character
lower(chars) ==
    [i \in DOMAIN chars |->
        IF \E j \in DOMAIN UpperCase : UpperCase[j] = chars[i]
        THEN LowerCase[CHOOSE j \in DOMAIN UpperCase : UpperCase[j] = chars[i]]
        ELSE chars[i]]

\* needle in haystack, for two strings
Contains(haystack, needle) ==
    \E i \in 1..(Len(haystack) - Len(needle) + 1) :
        SubSeq(haystack, i, i + Len(needle) - 1) = needle

cat_knowledge == <<"c", "a", "t", "_", "k", "n", "o", "w", "l", "e", "d", "g", "e">>

general_knowledge ==
    <<"g", "e", "n", "e", "r", "a", "l", "_", "k", "n", "o", "w", "l", "e", "d", "g", "e">>

\* What the router model may reply: the two labels, a label in other letter
\* case, in quotes or in a sentence, a misspelt label, nothing.
RouterReplies ==
    { cat_knowledge,
      general_knowledge,
      <<"C", "a", "t", "_", "K", "n", "o", "w", "l", "e", "d", "g", "e">>,
      <<"C", "A", "T", "_", "K", "N", "O", "W", "L", "E", "D", "G", "E">>,
      <<"'">> \o cat_knowledge \o <<"'">>,
      <<"n", "o", "t", " ">> \o cat_knowledge,
      <<"c", "a", "t", " ", "k", "n", "o", "w", "l", "e", "d", "g", "e">>,
      <<"c", "a", "t", "_", "k", "n", "o", "w", "l", "e", "d", "g">>,
      <<>> }

Questions == {"What do cats like to eat?", "What is the capital of France?"}

HumanMessage(content) == [type |-> "human", content |-> content]

AIMessage(content) == [type |-> "ai", content |-> content]

\* Mutation: the reply has to be the label itself.
route_question_ExactMatch(reply) ==
    IF lower(reply) = cat_knowledge THEN "cat_knowledge" ELSE "general_knowledge"

\* route_question, from the router model's reply on
route_question(reply) ==
    IF Contains(lower(reply), cat_knowledge) THEN "cat_knowledge" ELSE "general_knowledge"

\* The message a handler adds to the state: handle_cat_question wraps
\* str(result) of the QA chain in a HumanMessage, handle_general_question
\* returns the general model's response.
HandlerMessage(node, question) ==
    IF node = "cat_knowledge"
    THEN HumanMessage("{'query': '" \o question \o "', 'result': '...'}")
    ELSE AIMessage("answer to: " \o question)

Handlers == {"cat_knowledge", "general_knowledge"}

\* app.invoke({"messages": [HumanMessage(question)]}, config): the graph
\* enters START, whose conditional edge calls route_question.
InvokeWorkflow ==
    /\ graph.node \in {"none", "END", "Raised"}
    /\ graph.invocations < MaxInvocations
    /\ \E question \in Questions :
          graph' = [NoWorkflow EXCEPT !.node = "START",
                                      !.messages = <<HumanMessage(question)>>,
                                      !.invocations = graph.invocations + 1]
    /\ UNCHANGED <<conv, chunking>>

\* router_model.invoke returns: route_question picks the handler to enter.
RouterAnswers ==
    /\ graph.node = "START"
    /\ \E reply \in RouterReplies :
          LET route == route_question(reply)
          IN  graph' = [graph EXCEPT !.reply = reply,
                                     !.route = route,
                                     !.node = route,
                                     !.ran = Append(@, route)]
    /\ UNCHANGED <<conv, chunking>>

\* router_model.invoke raises: nothing in the notebook catches it.
RouterFails ==
    /\ graph.node = "START"
    /\ graph' = [graph EXCEPT !.node = "Raised", !.exception = "router_model.invoke"]
    /\ UNCHANGED <<conv, chunking>>

\* The handler's chain or model call returns: its message is added to the
\* state and the handler's edge leads to END.
HandlerReturns ==
    /\ graph.node \in Handlers
    /\ graph' = [graph EXCEPT
                    !.messages = Append(@, HandlerMessage(graph.node,
                                                          graph.messages[Len(graph.messages)].content)),
                    !.node = "END"]
    /\ UNCHANGED <<conv, chunking>>

\* cat_qa.invoke or general_model.invoke raises.
HandlerFails ==
    /\ graph.node \in Handlers
    /\ graph' = [graph EXCEPT !.node = "Raised", !.exception = graph.node]
    /\ UNCHANGED <<conv, chunking>>

GraphNext ==
    \/ InvokeWorkflow
    \/ RouterAnswers
    \/ RouterFails
    \/ HandlerReturns
    \/ HandlerFails

\* Every call to a model or chain comes back, one way or the other.
GraphSpec ==
    /\ Init
    /\ [][GraphNext]_vars
    /\ WF_vars(RouterAnswers \/ RouterFails)
    /\ WF_vars(HandlerReturns \/ HandlerFails)

(***************************************************************************)
(* chunk_text_by_tokens                                                    *)
(***************************************************************************)

TokenIds == {"t1", "t2"}

RECURSIVE SeqsOfLen(_, _)
\* The sequences of n elements of S.
SeqsOfLen(S, n) ==
    IF n = 0 THEN {<<>>}
    ELSE {Append(q, x) : q \in SeqsOfLen(S, n - 1), x \in S}

\* A text is known by the tokens tiktoken splits it into.
Text(token_ids) == [type |-> "str", tokens |-> token_ids]

ChunkTexts == UNION {{Text(q) : q \in SeqsOfLen(TokenIds, n)} : n \in 0..MaxTokens}

\* encoding.encode(text)
encode(text) == text.tokens

\* encoding.decode(chunk_ids)
decode(chunk_ids) == Text(chunk_ids)

\* A slice bound as Python reads it on a list of n items: counted from the end
\* when negative, clipped to 0..n.
SliceBound(i, n) ==
    IF i < 0 THEN (IF n + i < 0 THEN 0 ELSE n + i)
    ELSE IF i > n THEN n ELSE i

\* Mutation: the slice takes the item at index end as well.
Slice_EndInclusive(token_ids, start, end) ==
    SubSeq(token_ids, SliceBound(start, Len(token_ids)) + 1,
                      SliceBound(end + 1, Len(token_ids)))

\* token_ids[start:end]
Slice(token_ids, start, end) ==
    SubSeq(token_ids, SliceBound(start, Len(token_ids)) + 1,
                      SliceBound(end, Len(token_ids)))

\* Mutation: the next chunk starts where this one ended.
NextStart_NoOverlap(start, chunk_size, overlap) == start + chunk_size

\* start += (chunk_size - overlap)
NextStart(start, chunk_size, overlap) == start + (chunk_size - overlap)

\* chunk_text_by_tokens up to its loop (starts: where each chunk began).
BeginChunking(text, chunk_size, overlap) ==
    [pc |-> "loop", text |-> text, chunk_size |-> chunk_size, overlap |-> overlap,
     token_ids |-> encode(text), chunks |-> <<>>, start |-> 0, starts |-> <<>>]

\* while start < len(token_ids)
ChunkLoopCondition(k) == k.start < Len(k.token_ids)

\* One pass through the loop body.
ChunkLoopBody(k) ==
    LET end == k.start + k.chunk_size
        chunk_ids == Slice(k.token_ids, k.start, end)
        chunk_text == decode(chunk_ids)
    IN  [k EXCEPT !.chunks = Append(@, chunk_text),
                  !.starts = Append(@, k.start),
                  !.start = NextStart(@, k.chunk_size, k.overlap)]

ChunkLoop ==
    /\ chunking.pc = "loop"
    /\ ChunkLoopCondition(chunking)
    /\ Len(chunking.chunks) < MaxChunks
    /\ chunking' = ChunkLoopBody(chunking)
    /\ UNCHANGED <<conv, graph>>

\* return chunks
ChunkReturn ==
    /\ chunking.pc = "loop"
    /\ ~ChunkLoopCondition(chunking)
    /\ chunking' = [chunking EXCEPT !.pc = "returned"]
    /\ UNCHANGED <<conv, graph>>

ChunkInit ==
    /\ conv = [c \in Convs |-> ConversationManager]
    /\ \E text \in ChunkTexts, chunk_size \in 1..MaxChunkSize, overlap \in 0..MaxOverlap :
          chunking = BeginChunking(text, chunk_size, overlap)
    /\ graph = NoWorkflow

ChunkNext == ChunkLoop \/ ChunkReturn

ChunkSpec == ChunkInit /\ [][ChunkNext]_vars

(***************************************************************************)
(* Properties                                                              *)
(***************************************************************************)

\* The index in the history of the assistant message of the call's k-th tool round.
AssistantAt(m, k) == Len(m.history0) + 2 * k

\* The tool rounds of the current call whose two messages are in the history.
RoundsAppended(m) == {k \in 1..Len(m.call.executed) : AssistantAt(m, k) + 1 <= Len(m.history)}

\* C1: a call in which the model answered tool_use exactly N times and then
\* end_turn made N+1 model calls and N tool executions, and the history grew
\* by 2N+1 messages.
C1_CallsAndGrowth ==
    \A c \in Convs :
        LET m == conv[c]
            N == m.call.tool_requests
        IN  (m.call.pc = "Done" /\ m.call.response.stop_reason = "end_turn")
                => /\ m.call.model_calls = N + 1
                   /\ m.call.tool_execs = N
                   /\ Len(m.history) = Len(m.history0) + 2 * N + 1

C1_Witness ==
    \E c \in Convs :
        /\ conv[c].call.pc = "Done"
        /\ conv[c].call.response.stop_reason = "end_turn"
        /\ conv[c].call.tool_requests = 2

\* C2: in every tool round the tool_use_id of the appended tool_result is the
\* id of the tool_use block of that round's response whose name and input went
\* to process_tool_call.
C2_ToolUseIdEchoed ==
    \A c \in Convs :
        LET m == conv[c]
        IN  \A k \in RoundsAppended(m) :
                LET assistant == m.history[AssistantAt(m, k)]
                    result == m.history[AssistantAt(m, k) + 1].content.items[1]
                    blocks == assistant.content.items
                IN  \E i \in DOMAIN blocks :
                        /\ blocks[i].type = "tool_use"
                        /\ \A j \in 1..(i - 1) : blocks[j].type # "tool_use"
                        /\ blocks[i].name = m.call.executed[k].name
                        /\ blocks[i].input = m.call.executed[k].input
                        /\ blocks[i].id = result.tool_use_id

C2_Witness ==
    \E c \in Convs :
        LET m == conv[c]
        IN  /\ m.call.pc = "AwaitingModel"
            /\ 2 \in RoundsAppended(m)
            /\ \E k \in RoundsAppended(m) :
                  LET blocks == m.history[AssistantAt(m, k)].content.items
                  IN  /\ Len(blocks) = 2
                      /\ blocks[1].type = "tool_use"
                      /\ blocks[2].type = "tool_use"
                      /\ blocks[1].id # blocks[2].id

Range(seq) == {seq[i] : i \in DOMAIN seq}

\* The tool names a loop's process_tool_call dispatches.
Dispatched(fn) == IF fn = "chatbot_interaction" THEN Range(tools) ELSE Range(TOOLS)

\* The tool_result block of the call's k-th tool round.
ResultBlockAt(m, k) == m.history[AssistantAt(m, k) + 1].content.items[1]

\* The tool_result contents that report an error: an unknown tool, an
\* unreadable file.
ErrorContents ==
    {UnknownTool(b.name) : b \in ToolUses}
        \cup {"Error reading file " \o p \o ": [Errno 2]" : p \in {"docs/a.md"}}

ErrorRounds(m) == {k \in RoundsAppended(m) : ResultBlockAt(m, k).content \in ErrorContents}

\* C3: an exception raised by a tool executor never leaves the loop.
C3_ToolExceptionAbsorbed ==
    \A c \in Convs :
        ~(conv[c].call.pc = "Raised" /\ conv[c].call.origin = "process_tool_call")

\* C4: when tool executions fail the loop is not aborted, and the history
\* holds one error-valued tool_result per failed execution.
C4_FailuresBecomeResults ==
    \A c \in Convs :
        LET m == conv[c]
        IN  m.call.tool_failures > 0
                => /\ m.call.pc # "Raised"
                   /\ Cardinality(ErrorRounds(m)) >= m.call.tool_failures

\* C5: a request for a tool the loop does not dispatch raises nothing and is
\* answered with a tool_result whose content reports an error.
C5_UnknownToolReported ==
    \A c \in Convs :
        LET m == conv[c]
        IN  /\ (m.call.pc = "Raised" /\ m.call.origin = "process_tool_call")
                  => m.call.tool_use.name \in Dispatched(m.fn)
            /\ \A k \in RoundsAppended(m) :
                  m.call.executed[k].name \notin Dispatched(m.fn)
                      => ResultBlockAt(m, k).content \in ErrorContents

IsPrefix(s, t) == Len(s) <= Len(t) /\ SubSeq(t, 1, Len(s)) = s

\* C6 as claimed: every step leaves the old history a prefix of the new one.
C6_AppendOnly ==
    [][\A c \in Convs : IsPrefix(conv[c].history, conv'[c].history)]_vars

\* C6 as amended: every step but clear_history leaves the old history a
\* prefix of the new one (clear_history replaces it by an empty one).
C6_AppendOnlyUnlessCleared ==
    [][\A c \in Convs :
          ClearHistory(c) \/ IsPrefix(conv[c].history, conv'[c].history)]_vars

C6_Witness ==
    \E c \in Convs :
        /\ conv[c].fn = "chatbot_interaction"
        /\ conv[c].aliased
        /\ Len(conv[c].history0) >= 2
        /\ conv[c].call.pc = "Done"
        /\ conv[c].call.tool_execs >= 1

\* The indices of the Text blocks of a response content.
TextIndices(content) == {i \in DOMAIN content : content[i].type = "text"}

Least(S) == CHOOSE i \in S : \A j \in S : i <= j

\* C7: a call whose first response is end_turn makes one model call, never
\* executes a tool, returns the response's text unchanged and adds the user
\* message, and nothing else, to the history.
C7_NoToolTurn ==
    \A c \in Convs :
        LET m == conv[c]
            content == m.call.response.content
        IN  (m.call.pc = "Done" /\ m.call.received[1].stop_reason = "end_turn")
                => /\ m.call.model_calls = 1
                   /\ m.call.tool_execs = 0
                   /\ "ExecutingTool" \notin Range(m.call.path)
                   /\ m.call.response = m.call.received[1]
                   /\ TextIndices(content) # {}
                        => m.call.result.final_response
                               = Str(content[Least(TextIndices(content))].text)
                   /\ m.history
                        = Append(m.history0, Message("user", Str(m.call.user_message)))

C7_Witness ==
    \E c \in Convs :
        /\ conv[c].call.pc = "Done"
        /\ conv[c].call.received[1].stop_reason = "end_turn"
        /\ conv[c].call.response.content = <<TextBlock("Paris")>>
        /\ conv[c].call.result.final_response = Str("Paris")

\* C8: at Done the final response is the text of the first Text block of the
\* last response, None when it has no Text block.
C8_FirstTextOrNone ==
    \A c \in Convs :
        LET m == conv[c]
            content == m.call.response.content
        IN  m.call.pc = "Done"
                => /\ m.call.result.final_response = m.call.final_response
                   /\ IF TextIndices(content) = {}
                      THEN m.call.final_response = None
                      ELSE m.call.final_response
                               = Str(content[Least(TextIndices(content))].text)

C8_Witness ==
    \E c \in Convs :
        LET content == conv[c].call.response.content
        IN  /\ conv[c].call.pc = "Done"
            /\ Len(content) = 2
            /\ content[1].type = "text"
            /\ content[2].type = "text"
            /\ content[1].text # content[2].text
            /\ conv[c].call.final_response = Str(content[1].text)

C8_WitnessNone ==
    \E c \in Convs :
        /\ conv[c].call.pc = "Done"
        /\ conv[c].call.response.content # <<>>
        /\ conv[c].call.final_response = None

\* C9 as claimed: the caller gets the history back, and it holds an assistant
\* message for every response of the call and every tool_result of the call.
C9_HistoryReturned ==
    \A c \in Convs :
        LET m == conv[c]
        IN  m.call.pc = "Done"
                => /\ "conversation_manager" \in DOMAIN m.call.result
                   /\ \A i \in DOMAIN m.call.received :
                         \E j \in (Len(m.history0) + 1)..Len(m.call.result.conversation_manager) :
                             m.call.result.conversation_manager[j]
                                 = Message("assistant", List(m.call.received[i].content))

\* C9 as amended: at Done the messages added by the call are the user message
\* and, for every tool round in order, the assistant message holding that
\* round's full response content and a user message holding one tool_result;
\* the last response is not among them.  chatbot_interaction returns that
\* history with the final text, chat_with_rag the final text alone.
C9_ToolRoundsReturned ==
    \A c \in Convs :
        LET m == conv[c]
            N == Len(m.call.received) - 1
        IN  m.call.pc = "Done"
                => /\ Len(m.history) = Len(m.history0) + 2 * N + 1
                   /\ m.history[Len(m.history0) + 1]
                         = Message("user", Str(m.call.user_message))
                   /\ \A k \in 1..N :
                         /\ m.history[AssistantAt(m, k)]
                               = Message("assistant", List(m.call.received[k].content))
                         /\ m.history[AssistantAt(m, k) + 1].role = "user"
                         /\ Len(m.history[AssistantAt(m, k) + 1].content.items) = 1
                         /\ ResultBlockAt(m, k).type = "tool_result"
                   /\ m.call.result.final_response = m.call.final_response
                   /\ IF m.fn = "chatbot_interaction"
                      THEN m.call.result.conversation_manager = m.history
                      ELSE "conversation_manager" \notin DOMAIN m.call.result

C9_Witness ==
    \E c \in Convs :
        /\ conv[c].fn = "chatbot_interaction"
        /\ conv[c].call.pc = "Done"
        /\ Len(conv[c].call.received) = 3
        /\ Len(conv[c].call.received[1].content) = 2
        /\ Len(conv[c].call.result.conversation_manager) = 5

\* C10: every call whose model and tool calls come back ends, in Done unless
\* something was raised, and at Done it has made one model call more than
\* the model asked for tools and executed one tool per such request.
C10_EndsAfterRequestedRounds ==
    /\ \A c \in Convs :
          (conv[c].call.pc = "AwaitingModel")
              ~> (conv[c].call.pc = "Done" \/ conv[c].call.exception # "none")
    /\ [](\A c \in Convs :
             conv[c].call.pc = "Done"
                 => /\ conv[c].call.tool_execs = conv[c].call.tool_requests
                    /\ conv[c].call.model_calls = conv[c].call.tool_requests + 1)

C10_Witness ==
    \E c \in Convs :
        /\ conv[c].fn = "chat_with_rag"
        /\ conv[c].call.pc = "Done"
        /\ conv[c].call.tool_requests = 2
        /\ conv[c].call.exception = "none"


\* C11: a model call that fails is not retried: the failing call ends the turn
\* with the transport error raised to the caller, the failed call counted
\* once and the history as it was; after it the turn makes no further model
\* call and runs no tool (the next model call belongs to a new call by the
\* caller).
C11_TransportErrorAborts ==
    [][\A c \in Convs :
        LET m == conv[c]
            n == conv'[c]
        IN  /\ ModelFails(c) =>
                  /\ n.call.pc = "Raised"
                  /\ n.call.exception = "TransportError"
                  /\ n.call.origin = "messages.create"
                  /\ n.call.request = NoRequest
                  /\ n.call.result = NotReturned
                  /\ n.call.model_calls = m.call.model_calls
                  /\ n.call.tool_execs = m.call.tool_execs
                  /\ n.call.received = m.call.received
                  /\ n.history = m.history
            /\ m.call.origin = "messages.create" =>
                  \/ n.call = m.call
                  \/ n.call = NoCall
                  \/ /\ n.call.pc = "AwaitingModel"
                     /\ n.call.model_calls = 1
                     /\ n.call.received = <<>>
                     /\ n.call.tool_execs = 0]_vars

\* A follow-up model call failed after a completed tool round.
C11_Witness ==
    \E c \in Convs :
        /\ conv[c].call.pc = "Raised"
        /\ conv[c].call.exception = "TransportError"
        /\ conv[c].call.tool_execs = 1
        /\ conv[c].call.model_calls = 2
        /\ Len(conv[c].call.received) = 1


\* The history holds what the conversation's own calls appended and nothing
\* else: what it held when the running call began, the call's user message,
\* then the two messages of each of the call's completed tool rounds.
OwnMessagesOnly(m, text) ==
    LET n == m.call.tool_execs - m.call.tool_failures
    IN  IF m.call.pc = "Idle" \/ (m.fn = "chat_with_rag" /\ m.call.received = <<>>)
        THEN m.history = <<>>
        ELSE /\ Len(m.history) = Len(m.history0) + 1 + 2 * n
             /\ IsPrefix(m.history0, m.history)
             /\ m.history[Len(m.history0) + 1] = Message("user", Str(text))
             /\ \A k \in 1..n :
                   /\ m.history[AssistantAt(m, k)] =
                          Message("assistant", List(m.call.received[k].content))
                   /\ m.history[AssistantAt(m, k) + 1].role = "user"
                   /\ Len(m.history[AssistantAt(m, k) + 1].content.items) = 1
                   /\ ResultBlockAt(m, k).tool_use_id =
                          SelectToolUse(m.call.received[k].content).id

\* C12: two conversations with histories of their own (calls without a
\* manager start from a new empty one), interleaved at their model calls and
\* tool calls: neither history ever holds the other's user message, each holds
\* exactly what its own calls appended, and every request carries the
\* unchanged tool definitions.
C12_NoCrossTalk ==
    \A c \in PairConvs :
        /\ OwnMessagesOnly(conv[c], PairText(c))
        /\ \A d \in PairConvs \ {c} :
              /\ Message("user", Str(PairText(d))) \notin Range(conv[c].history)
              /\ conv[c].call.pc = "AwaitingModel" =>
                    Message("user", Str(PairText(d)))
                        \notin Range(conv[c].call.request.messages)
        /\ conv[c].call.pc = "AwaitingModel" =>
              conv[c].call.request.tools =
                  (IF conv[c].fn = "chatbot_interaction" THEN tools ELSE TOOLS)

\* Both conversations are in the middle of a call that has completed a tool
\* round: one is running its second tool, the other awaits the model.
C12_Witness ==
    /\ conv["c1"].call.pc = "ExecutingTool"
    /\ conv["c1"].call.tool_execs = 1
    /\ conv["c2"].call.pc = "AwaitingModel"
    /\ conv["c2"].call.tool_execs = 1
    /\ conv["c1"].fn = conv["c2"].fn


\* C13: chunk_text_by_tokens terminates for every token sequence, chunk_size
\* and overlap (overlap >= chunk_size included): every pass through the loop
\* brings start strictly closer to len(token_ids), the value at which the
\* loop test fails.
C13_EveryPassAdvances ==
    [][ChunkLoop =>
          Len(chunking.token_ids) - chunking'.start
              < Len(chunking.token_ids) - chunking.start]_vars

Min(a, b) == IF a <= b THEN a ELSE b

\* The tokens of the k-th chunk.
ChunkIds(k) == chunking.chunks[k].tokens

\* The calls the overlap claim is about.
OverlapBelowChunkSize ==
    /\ chunking.pc # "none"
    /\ chunking.overlap < chunking.chunk_size

\* C14 as stated: for 0 <= overlap < chunk_size every chunk after the first,
\* the final one included, begins with the last overlap tokens of the chunk
\* before it.
C14_OverlapExact ==
    OverlapBelowChunkSize =>
        \A k \in 2..Len(chunking.chunks) :
            LET prev == ChunkIds(k - 1)
                cur == ChunkIds(k)
                o == chunking.overlap
            IN  /\ Len(cur) >= o
                /\ Len(prev) >= o
                /\ SubSeq(cur, 1, o) = SubSeq(prev, Len(prev) - o + 1, Len(prev))

\* C14, amended: for 0 <= overlap < chunk_size every chunk after the first
\* starts chunk_size - overlap tokens after the one before it and begins with
\* that chunk's last min(overlap, r) tokens, r being the number of tokens from
\* the chunk's start to the end of the text: exactly overlap tokens are shared
\* when at least overlap tokens remain, fewer by a final chunk that does not.
C14_OverlapUpToEnd ==
    OverlapBelowChunkSize =>
        \A k \in 2..Len(chunking.chunks) :
            LET prev == ChunkIds(k - 1)
                cur == ChunkIds(k)
                r == Len(chunking.token_ids) - chunking.starts[k]
                shared == chunking.starts[k - 1] + Len(prev) - chunking.starts[k]
            IN  /\ chunking.starts[k] =
                       chunking.starts[k - 1] + chunking.chunk_size - chunking.overlap
                /\ shared = Min(chunking.overlap, r)
                /\ Len(cur) >= shared
                /\ SubSeq(cur, 1, shared) = SubSeq(prev, Len(prev) - shared + 1, Len(prev))

\* A call returned three chunks of a text whose final chunk is shorter than
\* the overlap, the tokens of the text not all alike.
C14_Witness ==
    /\ chunking.pc = "returned"
    /\ chunking.overlap = 2
    /\ chunking.chunk_size = 3
    /\ Len(chunking.chunks) = 3
    /\ Len(ChunkIds(3)) = 1
    /\ ChunkIds(1)[2] # ChunkIds(1)[3]


\* The step of conversation c starts a call: the loop is at its first model call.
CallStarts(m, n) ==
    /\ NoCallRunning(m)
    /\ n.call.pc = "AwaitingModel"
    /\ n.call.path = <<"AwaitingModel">>
    /\ n.call.received = <<>>

\* The step of conversation c is not a step of the loop: nothing of the call
\* changed, or the caller used the manager between two calls.
NoLoopStep(m, n) == n.call = m.call \/ (NoCallRunning(m) /\ n.call = NoCall)

\* C15 as stated: the loop has the three states AwaitingModel, ExecutingTool
\* and Done; it goes AwaitingModel -> ExecutingTool exactly when the response
\* has stop_reason tool_use, ExecutingTool -> AwaitingModel with the results
\* appended, AwaitingModel -> Done only when the model ended its turn (any
\* stop_reason but tool_use), and makes no other transition.
C15_ThreeStates ==
    [][\A c \in Convs :
        LET m == conv[c]
            n == conv'[c]
            p == m.call.pc
            q == n.call.pc
            r == n.call.response
        IN  \/ NoLoopStep(m, n)
            \/ CallStarts(m, n)
            \/ p = "AwaitingModel" /\ q = "ExecutingTool" /\ r.stop_reason = "tool_use"
            \/ p = "ExecutingTool" /\ q = "AwaitingModel"
                  /\ Len(n.history) = Len(m.history) + 2
            \/ p = "AwaitingModel" /\ q = "Done" /\ r.stop_reason # "tool_use"]_vars

\* C15, amended: the loop starts in AwaitingModel; from AwaitingModel it goes
\* to ExecutingTool exactly when the response has stop_reason tool_use and
\* holds a tool_use block, to Done on every other stop_reason, and it aborts with the exception raised when the model
\* call fails or a tool_use response holds no tool_use block; from
\* ExecutingTool it goes back to AwaitingModel with the two messages of the
\* round appended, or aborts when the tool raises; Done and the abort are
\* final, and there is no other transition.
C15_StatesAndAborts ==
    [][\A c \in Convs :
        LET m == conv[c]
            n == conv'[c]
            p == m.call.pc
            q == n.call.pc
            r == n.call.response
            asked == r.stop_reason = "tool_use"
            block == \E i \in DOMAIN r.content : r.content[i].type = "tool_use"
        IN  \/ NoLoopStep(m, n)
            \/ CallStarts(m, n)
            \/ p = "AwaitingModel" /\ q = "ExecutingTool" /\ asked /\ block
            \/ p = "AwaitingModel" /\ q = "Done" /\ ~asked
            \/ p = "AwaitingModel" /\ q = "Raised"
                  /\ \/ n.call.exception = "TransportError" /\ r = m.call.response
                     \/ n.call.exception = "StopIteration" /\ asked /\ ~block
            \/ p = "ExecutingTool" /\ q = "AwaitingModel"
                  /\ Len(n.history) = Len(m.history) + 2
            \/ p = "ExecutingTool" /\ q = "Raised"
                  /\ n.call.origin = "process_tool_call"]_vars

\* A call went through a tool round and ended: AwaitingModel, ExecutingTool,
\* AwaitingModel, Done.
C15_Witness ==
    \E c \in Convs :
        conv[c].call.path = <<"AwaitingModel", "ExecutingTool", "AwaitingModel", "Done">>


Last(seq) == seq[Len(seq)]

\* C16: within one conversation model calls and tool executions alternate and
\* never overlap: a tool runs only when every model call made so far has
\* been answered (no request pending, the tool being the one the last answer
\* asked for), and a model call is pending only when every tool asked for so
\* far has finished, the request ending with the result of the last one.
C16_StrictAlternation ==
    \A c \in Convs :
        LET k == conv[c].call
        IN  /\ k.pc = "ExecutingTool" =>
                  /\ k.request = NoRequest
                  /\ Len(k.received) = k.model_calls
                  /\ k.tool_execs = k.model_calls - 1
                  /\ k.response = Last(k.received)
                  /\ k.tool_use = SelectToolUse(k.response.content)
            /\ k.pc = "AwaitingModel" =>
                  /\ k.request.sent
                  /\ Len(k.received) = k.model_calls - 1
                  /\ k.tool_execs = k.model_calls - 1
                  /\ k.tool_failures = 0
                  /\ k.model_calls > 1 =>
                        LET m == Last(k.request.messages)
                        IN  /\ m.role = "user"
                            /\ m.content.type = "list"
                            /\ m.content.items[1].type = "tool_result"
                            /\ m.content.items[1].tool_use_id =
                                   SelectToolUse(Last(k.received).content).id
            /\ \A i \in DOMAIN k.path :
                  /\ k.path[i] = "AwaitingModel" <=> (i % 2 = 1 /\ k.path[i] # "Raised")
                  /\ k.path[i] = "ExecutingTool" => i % 2 = 0
                  /\ k.path[i] \in {"Done", "Raised"} => i = Len(k.path)

\* The third model call of a turn is pending, two tools having run before it.
C16_Witness ==
    \E c \in Convs :
        /\ conv[c].call.pc = "AwaitingModel"
        /\ conv[c].call.model_calls = 3
        /\ conv[c].call.tool_execs = 2


\* C17: a tool round appends exactly two messages, in this order: an assistant
\* message with the whole content of the response (every block of it), then a
\* user message with one tool_result block; no other step of the loop
\* appends anything (chat_with_rag binds messages_history, holding the user
\* message, when its first response arrives).
C17_TwoMessagesPerRound ==
    [][\A c \in Convs :
        LET m == conv[c]
            n == conv'[c]
            before == HistoryAtLoop(m)
        IN  /\ m.call.pc = "ExecutingTool" /\ n.call.pc = "AwaitingModel" =>
                  /\ Len(n.history) = Len(m.history) + 2
                  /\ SubSeq(n.history, 1, Len(m.history)) = m.history
                  /\ n.history[Len(m.history) + 1] =
                         Message("assistant", List(m.call.response.content))
                  /\ n.history[Len(m.history) + 2].role = "user"
                  /\ n.history[Len(m.history) + 2].content.type = "list"
                  /\ Len(n.history[Len(m.history) + 2].content.items) = 1
                  /\ n.history[Len(m.history) + 2].content.items[1].type = "tool_result"
            /\ m.call.pc = "ExecutingTool" /\ n.call.pc # "AwaitingModel" =>
                  n.history = m.history
            /\ m.call.pc = "AwaitingModel" =>
                  \/ n.history = m.history
                  \/ n.history = before /\ Len(n.call.received) = 1]_vars

\* A round was appended whose response held a text block before the tool_use
\* block: the assistant message holds both.
C17_Witness ==
    \E c \in Convs :
        /\ conv[c].call.tool_execs = 1
        /\ conv[c].call.pc = "AwaitingModel"
        /\ Len(conv[c].history) = Len(conv[c].history0) + 3
        /\ Len(conv[c].history[AssistantAt(conv[c], 1)].content.items) = 2
        /\ conv[c].history[AssistantAt(conv[c], 1)].content.items[1].type = "text"


\* The places of the tool_use blocks in a response content.
ToolUseIndices(content) == {i \in DOMAIN content : content[i].type = "tool_use"}

\* C18: of the tool_use blocks of a response only the first in content order is
\* executed and answered: each round runs one tool, that of the first block,
\* and appends one tool_result, carrying the first block's id, however many
\* tool_use blocks the response holds.
C18_FirstToolUseOnly ==
    \A c \in Convs :
        LET m == conv[c]
            k == m.call
        IN  /\ Len(k.executed) = k.tool_execs
            /\ k.tool_execs <= k.tool_requests
            /\ k.pc \in {"AwaitingModel", "Done"} => k.tool_execs = k.tool_requests
            /\ k.pc = "ExecutingTool" =>
                  /\ k.tool_execs = k.tool_requests - 1
                  /\ k.tool_use = k.response.content[Least(ToolUseIndices(k.response.content))]
            /\ \A r \in 1..k.tool_execs :
                  LET first == k.received[r].content[Least(ToolUseIndices(k.received[r].content))]
                  IN  /\ k.received[r].stop_reason = "tool_use"
                      /\ k.executed[r] = [name |-> first.name, input |-> first.input]
                      /\ r \in RoundsAppended(m) =>
                            /\ Len(m.history[AssistantAt(m, r) + 1].content.items) = 1
                            /\ ResultBlockAt(m, r).type = "tool_result"
                            /\ ResultBlockAt(m, r).tool_use_id = first.id

\* A round was completed on a response holding two different tool_use blocks.
C18_Witness ==
    \E c \in Convs :
        /\ 1 \in RoundsAppended(conv[c])
        /\ Cardinality(ToolUseIndices(conv[c].call.received[1].content)) = 2
        /\ conv[c].call.received[1].content[1] # conv[c].call.received[1].content[2]


\* C19: the messages of every model call are the conversation history as it
\* stands, in insertion order: what the history held before the call, the
\* user message, then the assistant and tool-result message of every round
\* completed so far, nothing left out, added or moved (chat_with_rag sends
\* the user message alone first, and binds messages_history to that same
\* list content right after).
C19_RequestIsHistory ==
    \A c \in Convs :
        LET m == conv[c]
            k == m.call
            sent == k.request.messages
        IN  k.pc = "AwaitingModel" =>
                /\ sent = (IF m.fn = "chat_with_rag" /\ k.model_calls = 1
                           THEN <<Message("user", Str(k.user_message))>>
                           ELSE m.history)
                /\ Len(sent) = Len(m.history0) + 1 + 2 * k.tool_execs
                /\ IsPrefix(m.history0, sent)
                /\ sent[Len(m.history0) + 1] = Message("user", Str(k.user_message))
                /\ \A r \in 1..k.tool_execs :
                      /\ sent[AssistantAt(m, r)] =
                             Message("assistant", List(k.received[r].content))
                      /\ sent[AssistantAt(m, r) + 1].role = "user"
                      /\ sent[AssistantAt(m, r) + 1].content.items[1].tool_use_id =
                             SelectToolUse(k.received[r].content).id

\* The follow-up call of a turn on a manager that already held an earlier
\* turn: the request carries the earlier messages, the user message and the
\* round.
C19_Witness ==
    \E c \in Convs :
        /\ conv[c].call.pc = "AwaitingModel"
        /\ conv[c].call.tool_execs = 1
        /\ Len(conv[c].history0) = 1
        /\ Len(conv[c].call.request.messages) = 4


ToolsOf(fn) == IF fn = "chatbot_interaction" THEN tools ELSE TOOLS

\* C21: every model call of a conversation, the initial one and each
\* follow-up after a tool round, is passed the same tool list, the one the
\* function was written with; no step of the loop or of a tool changes the
\* list from one call to the next.
C21_SameToolsOnEveryCall ==
    /\ [](\A c \in Convs :
            conv[c].call.request.sent =>
                /\ conv[c].call.pc = "AwaitingModel"
                /\ conv[c].call.request.tools = ToolsOf(conv[c].fn))
    /\ [][\A c \in Convs :
            (conv[c].call.pc = "ExecutingTool" /\ conv'[c].call.pc = "AwaitingModel") =>
                /\ conv'[c].call.request.sent
                /\ conv'[c].call.request.tools = ToolsOf(conv[c].fn)
                /\ conv'[c].call.model_calls = conv[c].call.model_calls + 1]_vars

\* The third model call of a turn, after two tool rounds, carries the tools.
C21_Witness ==
    \E c \in Convs :
        /\ conv[c].call.pc = "AwaitingModel"
        /\ conv[c].call.model_calls = 3
        /\ conv[c].call.request.tools = tools
        /\ Len(conv[c].call.request.tools) = 3


\* The string read_full_document returns for a file it could not read.
ReadError(file_path) == "Error reading file " \o file_path \o ": [Errno 2]"

\* The loop is running read_full_document on a file path.
ReadingDocument(m) ==
    /\ m.call.pc = "ExecutingTool"
    /\ m.call.tool_use.name = "read_full_document"
    /\ "file_path" \in DOMAIN m.call.tool_use.input

\* C22: read_full_document never raises: whatever the file path, every outcome
\* of the call is a returned string, the file's text or the error as a
\* string; the loop appends it as the tool_result of the round and calls the
\* model again, so no call is ever aborted by a read_full_document round.
C22_ReadErrorFedBack ==
    /\ [](\A c \in Convs :
            ReadingDocument(conv[c]) =>
                \A o \in ToolOutcomes(conv[c]) : ~o.raised /\ o.value.type = "str")
    /\ [](\A c \in Convs :
            conv[c].call.origin = "process_tool_call" =>
                Last(conv[c].call.executed).name # "read_full_document")
    /\ [][\A c \in Convs :
            (ReadingDocument(conv[c]) /\ conv'[c] # conv[c]) =>
                LET m == conv[c]
                    n == conv'[c]
                    path == m.call.tool_use.input.file_path
                    block == Last(n.history).content.items[1]
                IN  /\ n.call.pc = "AwaitingModel"
                    /\ n.call.request.sent
                    /\ n.call.request.messages = n.history
                    /\ Len(n.history) = Len(m.history) + 2
                    /\ Last(n.history).role = "user"
                    /\ block.type = "tool_result"
                    /\ block.tool_use_id = m.call.tool_use.id
                    /\ block.content \in {"full text of " \o path, ReadError(path)}]_vars

\* The file could not be read: the error string is the tool_result of the
\* round and the model is called again.
C22_Witness ==
    \E c \in Convs :
        /\ conv[c].fn = "chat_with_rag"
        /\ conv[c].call.pc = "AwaitingModel"
        /\ conv[c].call.model_calls = 2
        /\ Last(conv[c].call.executed).name = "read_full_document"
        /\ Last(conv[c].history).content.items[1].content = ReadError("data/missing.md")


\* The handler the claim names for a reply of the router model.
HandlerFor(reply) ==
    IF Contains(lower(reply), cat_knowledge) THEN "cat_knowledge" ELSE "general_knowledge"

\* An invocation of the graph has stopped.
InvocationOver == graph.invocations > 0 /\ graph.node \notin ({"START"} \cup Handlers)

\* C23 as stated: every invocation of the routing workflow runs exactly one of
\* the two handlers, once, and then reaches END; the handler is
\* cat_knowledge exactly when the router's reply, lower-cased, contains
\* 'cat_knowledge'.
C23_OneHandlerThenEnd ==
    InvocationOver =>
        /\ graph.node = "END"
        /\ graph.ran = <<HandlerFor(graph.reply)>>

\* C23, amended: an invocation runs at most one handler, the one named by
\* the router's reply (cat_knowledge exactly when the reply, lower-cased,
\* contains 'cat_knowledge'); it reaches END, with that handler's message
\* added, when the router model's call and the handler's call both return; it
\* ends with the exception raised, and END not reached, when the router
\* model's call raises (no handler run) or the handler's call raises.
C23_OneHandlerUnlessRaised ==
    /\ [](/\ Len(graph.ran) <= 1
          /\ graph.ran # <<>> => graph.ran = <<HandlerFor(graph.reply)>>
          /\ graph.node \in Handlers => graph.ran = <<graph.node>>
          /\ graph.node = "END" =>
                /\ Len(graph.ran) = 1
                /\ graph.exception = "none"
                /\ Len(graph.messages) = 2
          /\ graph.node = "Raised" =>
                IF graph.exception = "router_model.invoke"
                THEN graph.ran = <<>>
                ELSE graph.ran = <<graph.exception>>)
    /\ (graph.node = "START") ~> (graph.node \in {"END", "Raised"})

\* An invocation reached END through handle_cat_question on a reply that is
\* not the label as such: it is in capitals.
C23_Witness ==
    /\ graph.node = "END"
    /\ graph.ran = <<"cat_knowledge">>
    /\ graph.reply # <<>>
    /\ graph.reply[1] = "C"
    /\ graph.messages[2].type = "human"


\* C24: chatbot_interaction never appends the final response: when it
\* returns, the history holds the call's user message and its tool rounds
\* and ends with a user-role entry; the next chatbot_interaction call on the
\* same manager appends its user message right behind it, giving two
\* adjacent user-role entries and no entry for the first turn's final answer.
C24_FinalResponseNotAppended ==
    /\ [](\A c \in Convs :
            LET m == conv[c]
            IN  (m.fn = "chatbot_interaction" /\ m.call.pc = "Done") =>
                    /\ Last(m.history).role = "user"
                    /\ Len(m.history) = Len(m.history0) + 1 + 2 * m.call.tool_execs
                    /\ Len(m.call.received) = m.call.tool_execs + 1
                    /\ m.call.result.conversation_manager = m.history)
    /\ [][\A c \in Convs :
            LET m == conv[c]
                n == conv'[c]
            IN  (m.fn = "chatbot_interaction" /\ m.call.pc = "Done" /\ CallStarts(m, n)) =>
                    /\ n.history = Append(m.history, Message("user", Str(n.call.user_message)))
                    /\ n.history[Len(n.history) - 1].role = "user"
                    /\ Last(n.history).role = "user"
                    /\ n.call.request.messages = n.history]_vars

\* A call on a manager that already held a user message returned a text
\* answer: the history is the two user messages, the answer is not in it.
C24_Witness ==
    \E c \in Convs :
        /\ conv[c].fn = "chatbot_interaction"
        /\ conv[c].call.pc = "Done"
        /\ conv[c].call.final_response # None
        /\ Len(conv[c].history0) = 1
        /\ Len(conv[c].history) = 2
        /\ conv[c].history[1].role = "user"
        /\ conv[c].history[2].role = "user"


\* The response has stop_reason tool_use and no tool_use block.
ToolUseWithoutBlock(response) ==
    /\ response.stop_reason = "tool_use"
    /\ ToolUseIndices(response.content) = {}

\* C25: a response with stop_reason tool_use and no tool_use block aborts the
\* call with an exception raised to the caller: the call does not reach Done
\* and returns nothing, no tool is executed for the response, and neither an
\* assistant nor a tool-result message is appended for it.
C25_MissingBlockAborts ==
    /\ [](\A c \in Convs :
            (conv[c].call.pc \in {"ExecutingTool", "Done"}) =>
                ~ToolUseWithoutBlock(conv[c].call.response))
    /\ [][\A c \in Convs :
            LET m == conv[c]
                n == conv'[c]
            IN  (/\ m.call.pc = "AwaitingModel"
                 /\ Len(n.call.received) = Len(m.call.received) + 1
                 /\ ToolUseWithoutBlock(n.call.response)) =>
                    /\ n.call.pc = "Raised"
                    /\ n.call.exception = "StopIteration"
                    /\ n.call.result = NotReturned
                    /\ n.call.tool_execs = m.call.tool_execs
                    /\ n.call.executed = m.call.executed
                    /\ Len(n.history) = Len(m.call.request.messages)
                    /\ n.history = m.call.request.messages]_vars

\* The second response of a call asked for a tool without naming one: the
\* call is aborted with the first round in the history and nothing more.
C25_Witness ==
    \E c \in Convs :
        /\ conv[c].call.pc = "Raised"
        /\ conv[c].call.exception = "StopIteration"
        /\ conv[c].call.tool_execs = 1
        /\ Len(conv[c].call.received) = 2
        /\ Len(conv[c].history) = Len(conv[c].history0) + 3


\* C26: a model call or a tool execution that fails inside chatbot_interaction
\* leaves in the manager's history everything the turn appended before the
\* failure: the user message and the two messages of every completed round,
\* behind what the history held before the call; nothing is rolled back.
C26_NoRollback ==
    /\ [](\A c \in Convs :
            LET m == conv[c]
                done == m.call.tool_execs - m.call.tool_failures
            IN  (m.fn = "chatbot_interaction" /\ m.call.pc = "Raised") =>
                    /\ Len(m.history) = Len(m.history0) + 1 + 2 * done
                    /\ IsPrefix(m.history0, m.history)
                    /\ m.history[Len(m.history0) + 1] = Message("user", Str(m.call.user_message))
                    /\ \A k \in 1..done :
                          /\ m.history[AssistantAt(m, k)] =
                                 Message("assistant", List(m.call.received[k].content))
                          /\ ResultBlockAt(m, k).type = "tool_result")
    /\ [][\A c \in Convs :
            (/\ conv[c].fn = "chatbot_interaction"
             /\ conv[c].call.pc \in {"AwaitingModel", "ExecutingTool"}
             /\ conv'[c].call.pc = "Raised") =>
                conv'[c].history = conv[c].history]_vars

\* The tool of the second round raised: the user message and the first
\* round are still in the history.
C26_Witness ==
    \E c \in Convs :
        /\ conv[c].fn = "chatbot_interaction"
        /\ conv[c].call.pc = "Raised"
        /\ conv[c].call.origin = "process_tool_call"
        /\ conv[c].call.tool_execs = 2
        /\ Len(conv[c].history) = Len(conv[c].history0) + 3


\* C27: for 0 <= overlap < chunk_size every chunk holds at least 1 and at most
\* chunk_size tokens, the k-th chunk (counted from 0) is the tokens from index
\* k * (chunk_size - overlap) on, every token of the text is in at least one
\* returned chunk, and a text without tokens gives no chunk.
C27_ChunkSizesStartsCoverage ==
    OverlapBelowChunkSize =>
        LET n == Len(chunking.token_ids)
            stride == chunking.chunk_size - chunking.overlap
        IN  /\ Len(chunking.starts) = Len(chunking.chunks)
            /\ \A k \in DOMAIN chunking.chunks :
                  /\ Len(ChunkIds(k)) >= 1
                  /\ Len(ChunkIds(k)) <= chunking.chunk_size
                  /\ chunking.starts[k] = (k - 1) * stride
                  /\ chunking.starts[k] + Len(ChunkIds(k)) <= n
                  /\ ChunkIds(k) = SubSeq(chunking.token_ids, chunking.starts[k] + 1,
                                          chunking.starts[k] + Len(ChunkIds(k)))
                  /\ Len(ChunkIds(k)) = Min(chunking.chunk_size, n - chunking.starts[k])
            /\ chunking.pc = "returned" =>
                  /\ \A i \in 1..n :
                        \E k \in DOMAIN chunking.chunks :
                            /\ chunking.starts[k] < i
                            /\ i <= chunking.starts[k] + Len(ChunkIds(k))
                  /\ n = 0 <=> chunking.chunks = <<>>

\* A text of five tokens was returned in three chunks of 3, 3 and 1 tokens,
\* starting at 0, 2 and 4.
C27_Witness ==
    /\ chunking.pc = "returned"
    /\ chunking.chunk_size = 3
    /\ chunking.overlap = 1
    /\ chunking.starts = <<0, 2, 4>>
    /\ Len(ChunkIds(3)) = 1
    /\ Len(chunking.token_ids) = 5

\* A call on a text without tokens returned no chunk.
C27_WitnessEmpty ==
    /\ chunking.pc = "returned"
    /\ chunking.overlap < chunking.chunk_size
    /\ chunking.token_ids = <<>>
    /\ chunking.chunks = <<>>


\* C28: chat_with_rag sends the system prompt with the initial request only:
\* the first request of a query carries the system prompt, the tools and the
\* user message; every request after a tool round carries the tools and the
\* message history and no system prompt.
C28_SystemPromptOnFirstRequestOnly ==
    \A c \in Convs :
        LET m == conv[c]
            r == m.call.request
        IN  (m.fn = "chat_with_rag" /\ m.call.pc = "AwaitingModel") =>
                /\ r.tools = TOOLS
                /\ r.tool_choice = Absent
                /\ m.call.model_calls = 1 =>
                      /\ r.system = RagSystemPrompt
                      /\ r.messages = <<Message("user", Str(m.call.user_message))>>
                /\ m.call.model_calls > 1 =>
                      /\ r.system = Absent
                      /\ r.system # RagSystemPrompt
                      /\ r.messages = m.history
                      /\ Len(r.messages) = 1 + 2 * m.call.tool_execs

\* The request after the first tool round of a query: tools and three
\* messages, no system prompt.
C28_Witness ==
    \E c \in Convs :
        /\ conv[c].fn = "chat_with_rag"
        /\ conv[c].call.pc = "AwaitingModel"
        /\ conv[c].call.model_calls = 2
        /\ conv[c].call.request.system = Absent
        /\ Len(conv[c].call.request.messages) = 3

====
